---- MODULE Spec2Model ----
(***************************************************************************)
(* Model of stac-downloader.py: the per-asset loop of main() (lines        *)
(* 63-106) that projects the bounding box of the input geometry into each  *)
(* asset's CRS, maps it to a pixel window, validates it, reads the window, *)
(* rewrites the profile and writes the cropped band.                       *)
(*                                                                         *)
(* Python tuples are 0-based, TLA+ tuples 1-based: bbox[3] of the source   *)
(* is bbox[4] here, transform[0] is transform[1], and so on.               *)
(* Coordinates are integers; a projection is an integer map that depends   *)
(* on the target CRS; the inverse affine transform is exact rational       *)
(* arithmetic followed by floor, as rasterio's index() does.               *)
(***************************************************************************)
EXTENDS Integers, Sequences, FiniteSets

VARIABLES
    geometry,           \* line 45: the first feature's geometry (its vertices)
    links,              \* lines 56-61: the asset URLs, in order
    i,                  \* line 63: position of geotiff_file in links (0 before the loop)
    pc,                 \* the statement main() executes next
    geo_fp,             \* line 64: the dataset opened for the current asset
    bbox,               \* line 65
    coord_transformer,  \* line 66
    coord_upper_left,   \* line 68
    coord_lower_right,  \* line 69
    pixel_upper_left,   \* line 70: (row, col)
    pixel_lower_right,  \* line 71: (row, col)
    window,             \* line 82
    subset,             \* line 86: the block read (band 1 over a source rectangle)
    profile,            \* lines 89-101
    fs,                 \* the files of dst_dir
    trace               \* the calls main() has made, in order

vars == <<geometry, links, i, pc, geo_fp, bbox, coord_transformer,
          coord_upper_left, coord_lower_right, pixel_upper_left,
          pixel_lower_right, window, subset, profile, fs, trace>>

------------------------------------------------------------------------------
(* Bounds of the model *)

\* geometry vertices have longitude and latitude in 0..MaxCoord
MaxCoord == 1
\* at most MaxLinks asset URLs are collected into links
MaxLinks == 2

------------------------------------------------------------------------------
(* Helpers *)

Min(S) == CHOOSE x \in S : \A y \in S : x <= y
Max(S) == CHOOSE x \in S : \A y \in S : y <= x
Max2(x, y) == IF x >= y THEN x ELSE y
Min2(x, y) == IF x <= y THEN x ELSE y

\* floor(n / d) for d # 0 (math.floor of the exact quotient)
FloorDiv(n, d) == IF d > 0 THEN n \div d ELSE (0 - n) \div (0 - d)

------------------------------------------------------------------------------
(* The environment: input geometries and the remote assets behind the URLs *)

Points == (0..MaxCoord) \X (0..MaxCoord)

\* a geometry is given by its vertices <<lon, lat>>: a point, or the two
\* ends of a segment / two opposite corners of a polygon's extent
Geometries == {{p} : p \in Points} \cup {{p, q} : p, q \in Points}

\* what rasterio.open(url) finds: href, CRS, affine transform
\* <<a, b, c, d, e, f>>, width and height
RemoteAssets ==
    { [href |-> <<"h", "/", "p", "/", "4">>, crs |-> "epsg:32632",
       transform |-> <<2, 0, 0, 0, -2, 6>>, width |-> 4, height |-> 4],
      [href |-> <<"h", "/", "q", "/", "4">>, crs |-> "epsg:32633",
       transform |-> <<1, 0, 0, 0, -1, 5>>, width |-> 3, height |-> 3],
      [href |-> <<"h", "/", "p", "/", "5">>, crs |-> "epsg:32632",
       transform |-> <<2, 0, 2, 0, -2, 4>>, width |-> 2, height |-> 2],
      [href |-> <<"h", "/", "r", "/", "6">>, crs |-> "epsg:32632",
       transform |-> <<1, 1, 0, 1, -1, 0>>, width |-> 6, height |-> 3],
      [href |-> <<"h", "/", "s", "/", "7">>, crs |-> "epsg:32633",
       transform |-> <<2, 0, 0, 0, 2, 2>>, width |-> 3, height |-> 3],
      [href |-> <<"h", "/", "p", "/">>, crs |-> "epsg:32633",
       transform |-> <<2, 0, 0, 0, -2, 6>>, width |-> 4, height |-> 4] }

Urls == {a.href : a \in RemoteAssets}

Dataset(url) == CHOOSE a \in RemoteAssets : a.href = url

LinkLists == UNION {[1..n -> Urls] : n \in 0..MaxLinks}

dst_dir == <<"d">>

------------------------------------------------------------------------------
(* Library functions main() calls, as what they compute *)

\* rasterio.features.bounds(geometry): (min_x, min_y, max_x, max_y)
Bounds(g) ==
    <<Min({p[1] : p \in g}), Min({p[2] : p \in g}),
      Max({p[1] : p \in g}), Max({p[2] : p \in g})>>

\* Transformer.from_crs("epsg:4326", crs): the transformer object
FromCrs(crs) == [src |-> "epsg:4326", dst |-> crs]

\* transformer.transform(lat, lon): EPSG:4326 takes (lat, lon) and a
\* projected CRS returns (x, y); the map depends on the target CRS
Project(t, lat, lon) ==
    IF t.dst = "epsg:32632" THEN <<3 * lon, 3 * lat>>
    ELSE <<2 * lon + 1, 2 * lat + 1>>

\* geo_fp.index(x, y): (row, col) = floor of the inverse affine transform
Index(ds, x, y) ==
    LET T == ds.transform
        det == T[1] * T[5] - T[2] * T[4]
        ncol == T[5] * (x - T[3]) - T[2] * (y - T[6])
        nrow == T[1] * (y - T[6]) - T[4] * (x - T[3])
    IN <<FloorDiv(nrow, det), FloorDiv(ncol, det)>>

\* the forward affine transform: position of pixel (row, col)
Apply(T, row, col) ==
    <<T[1] * col + T[2] * row + T[3], T[4] * col + T[5] * row + T[6]>>

\* Window.from_slices((r0, r1), (c0, c1)): lengths are max(stop - start, 0)
FromSlices(rows, cols) ==
    [col_off |-> cols[1], row_off |-> rows[1],
     width |-> Max2(cols[2] - cols[1], 0),
     height |-> Max2(rows[2] - rows[1], 0)]

\* faulty variant of Crop: a boundless read, which does not clip
Crop_Boundless(w, h, wd) == w

\* Window.crop(height, width): what a non-boundless read clips the window to
Crop(w, h, wd) ==
    LET row_start == Min2(Max2(w.row_off, 0), h)
        col_start == Min2(Max2(w.col_off, 0), wd)
        row_stop == Max2(0, Min2(w.row_off + w.height, h))
        col_stop == Max2(0, Min2(w.col_off + w.width, wd))
    IN [col_off |-> col_start, row_off |-> row_start,
        width |-> Max2(col_stop - col_start, 0),
        height |-> Max2(row_stop - row_start, 0)]

\* str.split("/"): the segments between the separators
RECURSIVE Split(_)
Split(s) ==
    IF \A k \in 1..Len(s) : s[k] # "/" THEN <<s>>
    ELSE LET k == Min({j \in 1..Len(s) : s[j] = "/"})
         IN <<SubSeq(s, 1, k - 1)>> \o Split(SubSeq(s, k + 1, Len(s)))

\* faulty variant of SplitLast: the first segment instead of the last
SplitLast_First(url) == LET parts == Split(url) IN parts[1]

\* geotiff_file.split("/")[-1]
SplitLast(url) == LET parts == Split(url) IN parts[Len(parts)]

\* os.path.join(a, b)
PathJoin(a, b) ==
    IF Len(b) > 0 /\ b[1] = "/" THEN b
    ELSE IF Len(a) = 0 \/ a[Len(a)] = "/" THEN a \o b
    ELSE a \o <<"/">> \o b

\* faulty variant of NewTransform: the translation of the source is kept
NewTransform_KeepOrigin(transform, ul) == transform

\* rasterio.Affine(transform[0], transform[1], coord_upper_left[0],
\*                 transform[3], transform[4], coord_upper_left[1])
NewTransform(transform, ul) ==
    <<transform[1], transform[2], ul[1], transform[4], transform[5], ul[2]>>

\* faulty variant of AnyNegative: only the upper-left pixel is tested
AnyNegative_UpperLeftOnly(ul, lr) == \E pixel \in {ul[1], ul[2]} : pixel < 0

\* the test of line 76 over pixel_upper_left + pixel_lower_right
AnyNegative(ul, lr) == \E pixel \in {ul[1], ul[2], lr[1], lr[2]} : pixel < 0

\* faulty variant of After: the window is read before it is validated
After_ReadFirst(s) ==
    CASE s = "open" -> "bounds"
      [] s = "bounds" -> "from_crs"
      [] s = "from_crs" -> "transform_ul"
      [] s = "transform_ul" -> "transform_lr"
      [] s = "transform_lr" -> "index_ul"
      [] s = "index_ul" -> "index_lr"
      [] s = "index_lr" -> "read"
      [] s = "read" -> "validate"
      [] s = "validate" -> "profile"
      [] s = "profile" -> "write"
      [] s = "write" -> "for"

\* the statement that follows statement s in the body of the loop
After(s) ==
    CASE s = "open" -> "bounds"
      [] s = "bounds" -> "from_crs"
      [] s = "from_crs" -> "transform_ul"
      [] s = "transform_ul" -> "transform_lr"
      [] s = "transform_lr" -> "index_ul"
      [] s = "index_ul" -> "index_lr"
      [] s = "index_lr" -> "validate"
      [] s = "validate" -> "read"
      [] s = "read" -> "profile"
      [] s = "profile" -> "write"
      [] s = "write" -> "for"

Event(op, crs, pt, path) ==
    [op |-> op, asset |-> i, crs |-> crs, pt |-> pt, path |-> path]

------------------------------------------------------------------------------
(* The state before the loop of line 63 *)

NoDataset ==
    [href |-> <<>>, crs |-> "", transform |-> <<0, 0, 0, 0, 0, 0>>,
     width |-> 0, height |-> 0, closed |-> TRUE]
NoWindow == [col_off |-> 0, row_off |-> 0, width |-> 0, height |-> 0]
NoProfile ==
    [crs |-> "", transform |-> <<0, 0, 0, 0, 0, 0>>, width |-> 0, height |-> 0]

Init ==
    /\ geometry \in Geometries
    /\ links \in LinkLists
    /\ i = 0
    /\ pc = "for"
    /\ geo_fp = NoDataset
    /\ bbox = <<0, 0, 0, 0>>
    /\ coord_transformer = [src |-> "", dst |-> ""]
    /\ coord_upper_left = <<0, 0>>
    /\ coord_lower_right = <<0, 0>>
    /\ pixel_upper_left = <<0, 0>>
    /\ pixel_lower_right = <<0, 0>>
    /\ window = NoWindow
    /\ subset = [band |-> 0, window |-> NoWindow]
    /\ profile = NoProfile
    /\ fs = {}
    /\ trace = <<>>

------------------------------------------------------------------------------
(* The statements of the loop, lines 63-106 *)

\* line 63: the next geotiff_file of links
NextAsset ==
    /\ pc = "for"
    /\ i < Len(links)
    /\ i' = i + 1
    /\ pc' = "open"
    /\ UNCHANGED <<geometry, links, geo_fp, bbox, coord_transformer,
                   coord_upper_left, coord_lower_right, pixel_upper_left,
                   pixel_lower_right, window, subset, profile, fs, trace>>

\* line 63: links is exhausted, main() returns
LoopEnd ==
    /\ pc = "for"
    /\ i >= Len(links)
    /\ pc' = "done"
    /\ UNCHANGED <<geometry, links, i, geo_fp, bbox, coord_transformer,
                   coord_upper_left, coord_lower_right, pixel_upper_left,
                   pixel_lower_right, window, subset, profile, fs, trace>>

\* line 64: with rasterio.open(geotiff_file) as geo_fp
OpenAsset ==
    /\ pc = "open"
    /\ LET a == Dataset(links[i])
       IN geo_fp' = [href |-> a.href, crs |-> a.crs, transform |-> a.transform,
                     width |-> a.width, height |-> a.height, closed |-> FALSE]
    /\ trace' = Append(trace, Event("open", "", <<0, 0>>, links[i]))
    /\ pc' = After("open")
    /\ UNCHANGED <<geometry, links, i, bbox, coord_transformer,
                   coord_upper_left, coord_lower_right, pixel_upper_left,
                   pixel_lower_right, window, subset, profile, fs>>

\* line 65: bbox = bounds(geometry)
ComputeBounds ==
    /\ pc = "bounds"
    /\ bbox' = Bounds(geometry)
    /\ trace' = Append(trace, Event("bounds", "", <<0, 0>>, <<>>))
    /\ pc' = After("bounds")
    /\ UNCHANGED <<geometry, links, i, geo_fp, coord_transformer,
                   coord_upper_left, coord_lower_right, pixel_upper_left,
                   pixel_lower_right, window, subset, profile, fs>>

\* faulty variant of MakeTransformer: the transformer of the first asset is kept
MakeTransformer_Cached ==
    /\ pc = "from_crs"
    /\ IF coord_transformer.dst = ""
       THEN /\ coord_transformer' = [src |-> "epsg:4326", dst |-> geo_fp.crs]
            /\ trace' = Append(trace, Event("from_crs", geo_fp.crs, <<0, 0>>, <<>>))
       ELSE UNCHANGED <<coord_transformer, trace>>
    /\ pc' = After("from_crs")
    /\ UNCHANGED <<geometry, links, i, geo_fp, bbox,
                   coord_upper_left, coord_lower_right, pixel_upper_left,
                   pixel_lower_right, window, subset, profile, fs>>

\* line 66: coord_transformer = Transformer.from_crs("epsg:4326", geo_fp.crs)
MakeTransformer ==
    /\ pc = "from_crs"
    /\ coord_transformer' = FromCrs(geo_fp.crs)
    /\ trace' = Append(trace, Event("from_crs", geo_fp.crs, <<0, 0>>, <<>>))
    /\ pc' = After("from_crs")
    /\ UNCHANGED <<geometry, links, i, geo_fp, bbox,
                   coord_upper_left, coord_lower_right, pixel_upper_left,
                   pixel_lower_right, window, subset, profile, fs>>

\* line 68: coord_upper_left = coord_transformer.transform(bbox[3], bbox[0])
TransformUpperLeft ==
    /\ pc = "transform_ul"
    /\ coord_upper_left' = Project(coord_transformer, bbox[4], bbox[1])
    /\ trace' = Append(trace, Event("transform", coord_transformer.dst,
                                    <<bbox[4], bbox[1]>>, <<>>))
    /\ pc' = After("transform_ul")
    /\ UNCHANGED <<geometry, links, i, geo_fp, bbox, coord_transformer,
                   coord_lower_right, pixel_upper_left,
                   pixel_lower_right, window, subset, profile, fs>>

\* line 69: coord_lower_right = coord_transformer.transform(bbox[1], bbox[2])
TransformLowerRight ==
    /\ pc = "transform_lr"
    /\ coord_lower_right' = Project(coord_transformer, bbox[2], bbox[3])
    /\ trace' = Append(trace, Event("transform", coord_transformer.dst,
                                    <<bbox[2], bbox[3]>>, <<>>))
    /\ pc' = After("transform_lr")
    /\ UNCHANGED <<geometry, links, i, geo_fp, bbox, coord_transformer,
                   coord_upper_left, pixel_upper_left,
                   pixel_lower_right, window, subset, profile, fs>>

\* line 70: pixel_upper_left = geo_fp.index(coord_upper_left[0], coord_upper_left[1])
IndexUpperLeft ==
    /\ pc = "index_ul"
    /\ pixel_upper_left' = Index(geo_fp, coord_upper_left[1], coord_upper_left[2])
    /\ trace' = Append(trace, Event("index", "", coord_upper_left, <<>>))
    /\ pc' = After("index_ul")
    /\ UNCHANGED <<geometry, links, i, geo_fp, bbox, coord_transformer,
                   coord_upper_left, coord_lower_right,
                   pixel_lower_right, window, subset, profile, fs>>

\* line 71: pixel_lower_right = geo_fp.index(coord_lower_right[0], coord_lower_right[1])
IndexLowerRight ==
    /\ pc = "index_lr"
    /\ pixel_lower_right' = Index(geo_fp, coord_lower_right[1], coord_lower_right[2])
    /\ trace' = Append(trace, Event("index", "", coord_lower_right, <<>>))
    /\ pc' = After("index_lr")
    /\ UNCHANGED <<geometry, links, i, geo_fp, bbox, coord_transformer,
                   coord_upper_left, coord_lower_right,
                   pixel_upper_left, window, subset, profile, fs>>

\* faulty variant of ValidateWindow: a negative pixel skips the asset (continue)
ValidateWindow_Continue ==
    /\ pc = "validate"
    /\ IF AnyNegative(pixel_upper_left, pixel_lower_right)
       THEN /\ pc' = "for"
            /\ geo_fp' = [geo_fp EXCEPT !.closed = TRUE]
            /\ trace' = Append(trace, Event("exit", "", <<0, 0>>, <<>>))
       ELSE /\ pc' = After("validate")
            /\ geo_fp' = geo_fp
            /\ trace' = Append(trace, Event("validate", "", <<0, 0>>, <<>>))
    /\ UNCHANGED <<geometry, links, i, bbox, coord_transformer,
                   coord_upper_left, coord_lower_right, pixel_upper_left,
                   pixel_lower_right, window, subset, profile, fs>>

\* faulty variant of ValidateWindow: a pixel beyond the width or height exits too
ValidateWindow_UpperBound ==
    /\ pc = "validate"
    /\ IF \/ AnyNegative(pixel_upper_left, pixel_lower_right)
          \/ pixel_upper_left[1] > geo_fp.height
          \/ pixel_lower_right[1] > geo_fp.height
          \/ pixel_upper_left[2] > geo_fp.width
          \/ pixel_lower_right[2] > geo_fp.width
       THEN /\ pc' = "exited"
            /\ geo_fp' = [geo_fp EXCEPT !.closed = TRUE]
            /\ trace' = Append(trace, Event("exit", "", <<0, 0>>, <<>>))
       ELSE /\ pc' = After("validate")
            /\ geo_fp' = geo_fp
            /\ trace' = Append(trace, Event("validate", "", <<0, 0>>, <<>>))
    /\ UNCHANGED <<geometry, links, i, bbox, coord_transformer,
                   coord_upper_left, coord_lower_right, pixel_upper_left,
                   pixel_lower_right, window, subset, profile, fs>>

\* lines 73-79: a negative pixel prints the message and exit()s; leaving the
\* with block closes geo_fp
ValidateWindow ==
    /\ pc = "validate"
    /\ IF AnyNegative(pixel_upper_left, pixel_lower_right)
       THEN /\ pc' = "exited"
            /\ geo_fp' = [geo_fp EXCEPT !.closed = TRUE]
            /\ trace' = Append(trace, Event("exit", "", <<0, 0>>, <<>>))
       ELSE /\ pc' = After("validate")
            /\ geo_fp' = geo_fp
            /\ trace' = Append(trace, Event("validate", "", <<0, 0>>, <<>>))
    /\ UNCHANGED <<geometry, links, i, bbox, coord_transformer,
                   coord_upper_left, coord_lower_right, pixel_upper_left,
                   pixel_lower_right, window, subset, profile, fs>>

\* lines 82-87: the window from the two pixels and the read of band 1. The
\* read clips the window to the dataset; of an empty window it either raises
\* (the exception leaves main(), closing geo_fp) or returns an empty block.
ReadWindow ==
    /\ pc = "read"
    /\ LET w == FromSlices(<<pixel_upper_left[1], pixel_lower_right[1]>>,
                           <<pixel_upper_left[2], pixel_lower_right[2]>>)
           got == Crop(w, geo_fp.height, geo_fp.width)
       IN /\ window' = w
          /\ \E raises \in BOOLEAN :
                IF raises /\ (got.width = 0 \/ got.height = 0)
                THEN /\ pc' = "failed"
                     /\ geo_fp' = [geo_fp EXCEPT !.closed = TRUE]
                     /\ subset' = subset
                     /\ trace' = Append(trace, Event("read_error", "", <<0, 0>>, <<>>))
                ELSE /\ pc' = After("read")
                     /\ geo_fp' = geo_fp
                     /\ subset' = [band |-> 1, window |-> got]
                     /\ trace' = Append(trace, Event("read", "", <<0, 0>>, <<>>))
    /\ UNCHANGED <<geometry, links, i, bbox, coord_transformer,
                   coord_upper_left, coord_lower_right, pixel_upper_left,
                   pixel_lower_right, profile, fs>>

\* lines 89-101: the profile of the source with the shape of the block and
\* the re-anchored transform
RewriteProfile ==
    /\ pc = "profile"
    /\ profile' = [crs |-> geo_fp.crs,
                   transform |-> NewTransform(geo_fp.transform, coord_upper_left),
                   width |-> subset.window.width,
                   height |-> subset.window.height]
    /\ trace' = Append(trace, Event("profile", "", <<0, 0>>, <<>>))
    /\ pc' = After("profile")
    /\ UNCHANGED <<geometry, links, i, geo_fp, bbox, coord_transformer,
                   coord_upper_left, coord_lower_right, pixel_upper_left,
                   pixel_lower_right, window, subset, fs>>

\* the files of dst_dir after a file is created (mode "w") at path
Replace(files, file) == {f \in files : f.path # file.path} \cup {file}

\* lines 102-106: create the file named after the last segment of the URL
\* and write the block. Creating a raster of width or height 0, or at a path
\* that is the directory itself, raises; otherwise the with block closes
\* geo_fp and the loop goes on.
WriteOutput ==
    /\ pc = "write"
    /\ LET name == SplitLast(links[i])
           path == PathJoin(dst_dir, name)
       IN IF name = <<>> \/ profile.width = 0 \/ profile.height = 0
          THEN /\ pc' = "failed"
               /\ fs' = fs
               /\ trace' = Append(trace, Event("write_error", "", <<0, 0>>, path))
          ELSE /\ pc' = After("write")
               /\ fs' = Replace(fs, [path |-> path, asset |-> i,
                                     profile |-> profile, data |-> subset])
               /\ trace' = Append(trace, Event("write", "", <<0, 0>>, path))
    /\ geo_fp' = [geo_fp EXCEPT !.closed = TRUE]
    /\ UNCHANGED <<geometry, links, i, bbox, coord_transformer,
                   coord_upper_left, coord_lower_right, pixel_upper_left,
                   pixel_lower_right, window, subset, profile>>

Next ==
    \/ NextAsset
    \/ LoopEnd
    \/ OpenAsset
    \/ ComputeBounds
    \/ MakeTransformer
    \/ TransformUpperLeft
    \/ TransformLowerRight
    \/ IndexUpperLeft
    \/ IndexLowerRight
    \/ ValidateWindow
    \/ ReadWindow
    \/ RewriteProfile
    \/ WriteOutput

Spec == Init /\ [][Next]_vars

------------------------------------------------------------------------------
(* What the claims speak about, stated from the inputs of the run *)

\* the positions of trace holding the op events of asset k
EventsOf(k, op) == {p \in 1..Len(trace) : trace[p].asset = k /\ trace[p].op = op}

Has(k, op) == EventsOf(k, op) # {}

Asset(k) == Dataset(links[k])

\* the projected upper-left corner of the bounding box in the CRS of asset k
UpperLeftOf(k) ==
    Project(FromCrs(Asset(k).crs), Bounds(geometry)[4], Bounds(geometry)[1])

\* the pixel window (row_start, row_end, col_start, col_end) of asset k
WindowOf(k) ==
    LET b == Bounds(geometry)
        a == Asset(k)
        t == FromCrs(a.crs)
        ul == Project(t, b[4], b[1])
        lr == Project(t, b[2], b[3])
        pul == Index(a, ul[1], ul[2])
        plr == Index(a, lr[1], lr[2])
    IN [row_start |-> pul[1], row_end |-> plr[1],
        col_start |-> pul[2], col_end |-> plr[2],
        height |-> a.height, width |-> a.width]

\* a corner of asset k maps to a negative row or a negative column
NegativePixel(k) ==
    LET w == WindowOf(k)
    IN w.row_start < 0 \/ w.col_start < 0 \/ w.row_end < 0 \/ w.col_end < 0

\* the validation of lines 73-79 has run for asset k
Validated(k) == Has(k, "exit") \/ Has(k, "validate")

------------------------------------------------------------------------------
(* C1 *)

\* C1: for every asset, if a projected corner maps to a negative row or
\* column, the out-of-bounds exit happens before any windowed read of that
\* asset, and no output file is written for that asset.
C1_NegativeSignalledBeforeRead ==
    \A k \in 1..Len(links) :
        (Cardinality(EventsOf(k, "index")) = 2 /\ NegativePixel(k)) =>
            /\ ~Has(k, "read") /\ ~Has(k, "read_error")
            /\ ~Has(k, "write") /\ ~Has(k, "write_error")
            /\ \A f \in fs : f.asset # k
            /\ ~Has(k, "validate")
            /\ (k < i \/ pc # "validate") => (Has(k, "exit") /\ pc = "exited")

\* an asset after the first is out of bounds below zero and the run has
\* exited on it, after a file was written for the first
C1_Witness ==
    /\ pc = "exited" /\ i = 2 /\ NegativePixel(2) /\ Has(2, "exit")
    /\ \E f \in fs : f.asset = 1

------------------------------------------------------------------------------
(* C2 *)

\* no statement runs once the run has exited, and the exit itself leaves
\* the files as they are
C2_Step ==
    /\ pc = "exited" => UNCHANGED vars
    /\ (pc = "validate" /\ NegativePixel(i)) => (pc' = "exited" /\ fs' = fs /\ i' = i)

\* after the exit on asset k: the exit is the last call made, no later asset
\* was touched, and every file written for an earlier asset is there
C2_State ==
    \A p \in 1..Len(trace) :
        trace[p].op = "exit" =>
            /\ p = Len(trace) /\ pc = "exited" /\ i = trace[p].asset
            /\ \A q \in 1..Len(trace) : trace[q].asset <= i
            /\ \A f \in fs : f.asset < i
            /\ \A q \in 1..Len(trace) :
                  trace[q].op = "write" => \E f \in fs : f.path = trace[q].path

\* C2: an out-of-bounds window on the k-th asset halts the process: no asset
\* after the k-th is opened, read or written, and the files written for the
\* assets before it are left as they are.
C2_OutOfBoundsIsTerminal == []C2_State /\ [][C2_Step]_vars

\* the run exited on the second asset and the file of the first is kept
C2_Witness ==
    /\ pc = "exited" /\ i = 2 /\ trace[Len(trace)].op = "exit"
    /\ \E f \in fs : f.asset = 1 /\ f.path = PathJoin(dst_dir, SplitLast(links[1]))

------------------------------------------------------------------------------
(* C3 *)

\* C3: every output raster written has the coefficients a, b, d, e of its
\* source asset's transform, and as translation the x and y of the
\* upper-left projected corner computed for that asset.
C3_TransformAnchoring ==
    \A f \in fs :
        LET src == Asset(f.asset).transform
            out == f.profile.transform
        IN /\ out[1] = src[1] /\ out[2] = src[2]
           /\ out[4] = src[4] /\ out[5] = src[5]
           /\ out[3] = UpperLeftOf(f.asset)[1]
           /\ out[6] = UpperLeftOf(f.asset)[2]

\* a file was written whose translation differs from its source's
C3_Witness ==
    \E f \in fs :
        /\ f.profile.transform[3] # Asset(f.asset).transform[3]
        /\ f.profile.transform[6] # Asset(f.asset).transform[6]

------------------------------------------------------------------------------
(* C4 *)

\* C4: every output raster's pixel grid aligns with its source's: the
\* position the output transform gives output pixel (0, 0) is the position
\* the source transform gives source pixel (row_start, col_start).
C4_GridAligned ==
    \A f \in fs :
        Apply(f.profile.transform, 0, 0) =
            Apply(Asset(f.asset).transform,
                  WindowOf(f.asset).row_start, WindowOf(f.asset).col_start)

------------------------------------------------------------------------------
(* C5 *)

\* the block of the current asset has been read
BlockRead == pc \in {"profile", "write"}

------------------------------------------------------------------------------
(* C6 *)

\* a pixel coordinate of asset k exceeds the asset's height or width
BeyondExtent(k) ==
    LET w == WindowOf(k)
    IN \/ w.row_start > w.height \/ w.row_end > w.height
       \/ w.col_start > w.width \/ w.col_end > w.width

\* the processing of asset k is over
Finished(k) == k < i \/ (k = i /\ pc \in {"for", "done", "exited", "failed"})

\* the part of the window of asset k inside the asset is not empty
ClippedNonEmpty(k) ==
    LET w == WindowOf(k)
    IN /\ Min2(w.row_start, w.height) < Min2(w.row_end, w.height)
       /\ Min2(w.col_start, w.width) < Min2(w.col_end, w.width)

\* name is the text of url after its last "/" (all of url if it has none)
IsTrailingSegment(url, name) ==
    /\ Len(name) <= Len(url)
    /\ SubSeq(url, Len(url) - Len(name) + 1, Len(url)) = name
    /\ \A j \in 1..Len(name) : name[j] # "/"
    /\ Len(name) < Len(url) => url[Len(url) - Len(name)] = "/"

------------------------------------------------------------------------------
(* C7 *)

\* path is dst_dir, a separator and the trailing segment of url
IsOutputPath(url, path) ==
    \E n \in 0..Len(url) :
        /\ IsTrailingSegment(url, SubSeq(url, Len(url) - n + 1, Len(url)))
        /\ path = dst_dir \o <<"/">> \o SubSeq(url, Len(url) - n + 1, Len(url))

\* C7: every output file is written into the destination directory under
\* the trailing path segment of its source URL; two processed assets whose
\* URLs share a trailing segment write to the same path, and the file of
\* the later one replaces the file of the earlier one.
C7_NamedByTrailingSegment ==
    /\ \A p \in 1..Len(trace) :
          trace[p].op = "write" =>
              /\ IsOutputPath(links[trace[p].asset], trace[p].path)
              /\ \E f \in fs : f.path = trace[p].path
    /\ \A f \in fs :
          /\ IsOutputPath(links[f.asset], f.path)
          /\ \A g \in fs : g.path = f.path => g = f
          /\ Has(f.asset, "write")
          /\ f.profile.crs = Asset(f.asset).crs
          /\ f.profile.transform[1] = Asset(f.asset).transform[1]
    /\ \A p, q \in 1..Len(trace) :
          (/\ p < q
           /\ trace[p].op = "write" /\ trace[q].op = "write"
           /\ \E name \in {SubSeq(links[trace[q].asset], n, Len(links[trace[q].asset])) :
                              n \in 1..Len(links[trace[q].asset]) + 1} :
                 /\ IsTrailingSegment(links[trace[p].asset], name)
                 /\ IsTrailingSegment(links[trace[q].asset], name))
          => /\ trace[p].path = trace[q].path
             /\ \A f \in fs : f.path = trace[p].path => f.asset >= trace[q].asset

\* two assets at different URLs with the same trailing segment and different
\* CRSs were both written, and the one file left is the second asset's
C7_Witness ==
    /\ Len(links) = 2 /\ links[1] # links[2] /\ pc = "done"
    /\ Has(1, "write") /\ Has(2, "write")
    /\ Asset(1).crs # Asset(2).crs
    /\ Cardinality(fs) = 1
    /\ \A f \in fs : f.asset = 2 /\ f.profile.crs = Asset(2).crs

------------------------------------------------------------------------------
(* C8 *)

\* C8: the transform that projects the corners of an asset is the one
\* constructed for that asset from that asset's own CRS: it is constructed
\* once per asset and applied to exactly two points (upper-left, then
\* lower-right); a transform built for an earlier asset is never used for a
\* later one.
C8_OwnTransformPerAsset ==
    /\ \A k \in 1..Len(links) :
          /\ Cardinality(EventsOf(k, "from_crs")) <= 1
          /\ Cardinality(EventsOf(k, "transform")) <= 2
          /\ \A p \in EventsOf(k, "from_crs") : trace[p].crs = Asset(k).crs
          /\ \A p \in EventsOf(k, "transform") :
                /\ trace[p].crs = Asset(k).crs
                /\ \E q \in EventsOf(k, "from_crs") : q < p
          /\ Has(k, "index") =>
                /\ Cardinality(EventsOf(k, "from_crs")) = 1
                /\ Cardinality(EventsOf(k, "transform")) = 2
                /\ LET first == Min(EventsOf(k, "transform"))
                       second == Max(EventsOf(k, "transform"))
                   IN /\ trace[first].pt = <<Bounds(geometry)[4], Bounds(geometry)[1]>>
                      /\ trace[second].pt = <<Bounds(geometry)[2], Bounds(geometry)[3]>>
    /\ pc \in {"transform_ul", "transform_lr"} =>
          coord_transformer = [src |-> "epsg:4326", dst |-> Asset(i).crs]

\* the second asset has another CRS than the first and both of its corners
\* have been projected
C8_Witness ==
    /\ i = 2 /\ Asset(1).crs # Asset(2).crs
    /\ Cardinality(EventsOf(2, "transform")) = 2
    /\ Cardinality(EventsOf(1, "transform")) = 2

------------------------------------------------------------------------------
(* C9 *)

\* C9: every pixel window handed to the windowed read has all four values
\* >= 0 and <= the asset's respective dimension, row_start < row_end and
\* col_start < col_end, for every input geometry.
C9_WindowInvariant ==
    pc = "read" =>
        /\ pixel_upper_left[1] >= 0 /\ pixel_upper_left[1] <= geo_fp.height
        /\ pixel_lower_right[1] >= 0 /\ pixel_lower_right[1] <= geo_fp.height
        /\ pixel_upper_left[2] >= 0 /\ pixel_upper_left[2] <= geo_fp.width
        /\ pixel_lower_right[2] >= 0 /\ pixel_lower_right[2] <= geo_fp.width
        /\ pixel_upper_left[1] < pixel_lower_right[1]
        /\ pixel_upper_left[2] < pixel_lower_right[2]

------------------------------------------------------------------------------
(* C10 *)

\* the calls made for one asset, in the order of the loop body
StepOrder ==
    <<"open", "bounds", "from_crs", "transform", "transform", "index",
      "index", "validate", "read", "profile", "write">>

\* the calls that end the run in place of the step at the same position
IsLastCall(n, op) ==
    \/ n = 8 /\ op = "exit"
    \/ n = 9 /\ op = "read_error"
    \/ n = 11 /\ op = "write_error"

\* C10: assets are processed one at a time in the order of links; the steps
\* of an asset occur in the order corner transform, pixel-window mapping,
\* validation, windowed read, profile rewrite, write; the write of asset k
\* completes before any step of asset k+1 begins, and at most one asset is
\* open at a time.
C10_Sequential ==
    /\ \A p \in 1..Len(trace) :
          LET k == trace[p].asset
              n == p - Min({q \in 1..Len(trace) : trace[q].asset = k}) + 1
          IN /\ k \in 1..i
             /\ n <= Len(StepOrder)
             /\ trace[p].op = StepOrder[n] \/ IsLastCall(n, trace[p].op)
             /\ IsLastCall(n, trace[p].op) => p = Len(trace)
             /\ p < Len(trace) =>
                   \/ trace[p + 1].asset = k
                   \/ /\ trace[p + 1].asset = k + 1
                      /\ trace[p].op = "write" /\ trace[p + 1].op = "open"
    /\ Len(trace) > 0 => trace[1].asset = 1
    /\ pc = "for" => geo_fp.closed
    /\ ~geo_fp.closed => geo_fp.href = links[i]

\* two assets were processed to the end, one after the other
C10_Witness ==
    /\ pc = "done" /\ Len(links) = 2 /\ Len(trace) = 2 * Len(StepOrder)
    /\ trace[Len(StepOrder)].op = "write" /\ trace[Len(StepOrder)].asset = 1
    /\ trace[Len(StepOrder) + 1].op = "open" /\ trace[Len(StepOrder) + 1].asset = 2

====
